---- MODULE Spec2Model ----
\* A model of src/browse.py: the confirmation gate should_continue, the two
\* tools of PlaywrightTools (click, go_back) and the main agentic loop that
\* asks the policy for tool calls, has them executed, consults the gate and
\* feeds the results back.
EXTENDS Integers, Sequences, FiniteSets, TLC

VARIABLES
    pc,                     \* position of the top-level script
    response,               \* the current llm response: [text, calls]
    rounds,                 \* follow-up prompts submitted so far (line 171)
    nextId,                 \* number of tool-call ids the policy has issued
    ran,                    \* calls of the last batch that ran, in completion order
    tool_results,           \* what execute_tool_calls returned (line 164)
    skip_confirmation_for,  \* line 157
    history,                \* PlaywrightTools.history
    screenshots,            \* labels N of the files screenshots/screenshot-N.png written
    hist0,                  \* len(tools.history) when the current batch started
    executed,               \* ids of the tool calls run so far
    twice,                  \* some tool call was run a second time
    batches,                \* batches handed to execute_tool_calls so far
    gates,                  \* should_continue calls in the current iteration
    reads,                  \* lines requested from the operator (input() calls)
    gate_call,              \* arguments and input of the last should_continue call
    gate_ret,               \* what that call returned (or raised)
    fed,                    \* tool_results submitted with the follow-up prompt just answered
    fault,                  \* the exception that ended the script, if any
    output,                 \* what the final report printed
    exit_status,            \* how the process ended: exit code, diagnostic printed
    inflight,               \* calls of the batch whose coroutine is started, not finished
    budget,                 \* the skip count the last operator answer set
    since_read              \* follow-up prompts submitted since the last operator answer

vars == <<pc, response, rounds, nextId, ran, tool_results, skip_confirmation_for,
          history, screenshots, hist0, executed, twice, batches, gates,
          reads, gate_call, gate_ret, fed, fault, output, exit_status,
          inflight, budget, since_read>>

\* ---------------------------------------------------------------- bounds
MaxRounds == 2      \* follow-up prompts in one run
MaxBatch == 2       \* tool calls in one response
MaxCalls == 4       \* tool calls the policy proposes in one run
MaxLen == 3         \* characters in a line typed by the operator (GateSpec)
MaxSkip == 3        \* skip counts should_continue is applied to (GateSpec)

None == [none |-> TRUE]

\* ------------------------------------------------------ strings (str methods)
\* A line is a sequence of characters. "Y" is an upper-case letter, "sup2" the
\* superscript two (U+00B2): str.isdigit() accepts it, int() does not.
Chars == {"n", "Y", "1", "2", "sup2", " ", "x"}

RECURSIVE StrsOfLen(_)
StrsOfLen(n) ==
    IF n = 0 THEN {<<>>}
    ELSE {Append(s, c) : s \in StrsOfLen(n - 1), c \in Chars}

Strs(n) == UNION {StrsOfLen(k) : k \in 0..n}

\* str.lower()
LowerChar(c) == IF c = "Y" THEN "y" ELSE c
Lower(s) == [i \in 1..Len(s) |-> LowerChar(s[i])]

\* str.strip(): drops leading and trailing whitespace
RECURSIVE LStrip(_)
LStrip(s) == IF s # <<>> /\ Head(s) = " " THEN LStrip(Tail(s)) ELSE s
RECURSIVE RStrip(_)
RStrip(s) ==
    IF s # <<>> /\ s[Len(s)] = " " THEN RStrip(SubSeq(s, 1, Len(s) - 1)) ELSE s
Strip(s) == RStrip(LStrip(s))

\* str.startswith(c) for a one-character prefix
StartsWith(s, c) == s # <<>> /\ Head(s) = c

\* str.isdigit(): non-empty and every character is a digit character; the
\* superscript digits count as digit characters.
IsDigitChar(c) == c \in {"1", "2", "sup2"}
IsDigit(s) == s # <<>> /\ \A i \in 1..Len(s) : IsDigitChar(s[i])

\* int(s): defined on decimal digits only; raises ValueError otherwise
IsDecimalChar(c) == c \in {"1", "2"}
IntParses(s) == s # <<>> /\ \A i \in 1..Len(s) : IsDecimalChar(s[i])
DigitValue(c) == IF c = "1" THEN 1 ELSE 2
RECURSIVE IntOf(_)
IntOf(s) ==
    IF s = <<>> THEN 0
    ELSE 10 * IntOf(SubSeq(s, 1, Len(s) - 1)) + DigitValue(s[Len(s)])

\* ------------------------------------------------------------ should_continue
\* What input() delivers: a line, or end of input (EOFError).
EOF == [eof |-> TRUE, line |-> <<>>]
Line(s) == [eof |-> FALSE, line |-> s]

Returned(c, k, r) == [raised |-> "none", cont |-> c, skip |-> k, read |-> r]
Raised(e) == [raised |-> e, cont |-> FALSE, skip |-> 0, read |-> TRUE]

\* should_continue with the skip count left as it is on the fast path.
should_continue_NoDecrement(skip_count, inp) ==
    IF skip_count > 0 THEN Returned(TRUE, skip_count, FALSE)
    ELSE IF inp.eof THEN Returned(FALSE, 0, TRUE)
    ELSE LET confirm == Strip(Lower(inp.line)) IN
         IF StartsWith(confirm, "n") THEN Returned(FALSE, 0, TRUE)
         ELSE IF IsDigit(confirm) THEN
              IF IntParses(confirm) THEN Returned(TRUE, IntOf(confirm), TRUE)
              ELSE Raised("ValueError")
         ELSE IF confirm # <<>> /\ ~StartsWith(confirm, "y")
              THEN Returned(FALSE, 0, TRUE)
         ELSE Returned(TRUE, 0, TRUE)

\* should_continue with the fast path taken one confirmation too late
\* (skip_count > 1 for skip_count > 0).
should_continue_OffByOne(skip_count, inp) ==
    IF skip_count > 1 THEN Returned(TRUE, skip_count - 1, FALSE)
    ELSE IF inp.eof THEN Returned(FALSE, 0, TRUE)
    ELSE LET confirm == Strip(Lower(inp.line)) IN
         IF StartsWith(confirm, "n") THEN Returned(FALSE, 0, TRUE)
         ELSE IF IsDigit(confirm) THEN
              IF IntParses(confirm) THEN Returned(TRUE, IntOf(confirm), TRUE)
              ELSE Raised("ValueError")
         ELSE IF confirm # <<>> /\ ~StartsWith(confirm, "y")
              THEN Returned(FALSE, 0, TRUE)
         ELSE Returned(TRUE, 0, TRUE)

\* should_continue taking an empty or "y" answer as leave to skip the next
\* confirmation.
should_continue_DefaultSkipsOne(skip_count, inp) ==
    IF skip_count > 0 THEN Returned(TRUE, skip_count - 1, FALSE)
    ELSE IF inp.eof THEN Returned(FALSE, 0, TRUE)
    ELSE LET confirm == Strip(Lower(inp.line)) IN
         IF StartsWith(confirm, "n") THEN Returned(FALSE, 0, TRUE)
         ELSE IF IsDigit(confirm) THEN
              IF IntParses(confirm) THEN Returned(TRUE, IntOf(confirm), TRUE)
              ELSE Raised("ValueError")
         ELSE IF confirm # <<>> /\ ~StartsWith(confirm, "y")
              THEN Returned(FALSE, 0, TRUE)
         ELSE Returned(TRUE, 1, TRUE)

\* should_continue(skip_count), given what input() would deliver if called.
\* read tells whether input() was called.
should_continue(skip_count, inp) ==
    IF skip_count > 0 THEN Returned(TRUE, skip_count - 1, FALSE)
    ELSE IF inp.eof THEN Returned(FALSE, 0, TRUE)
    ELSE LET confirm == Strip(Lower(inp.line)) IN
         IF StartsWith(confirm, "n") THEN Returned(FALSE, 0, TRUE)
         ELSE IF IsDigit(confirm) THEN
              IF IntParses(confirm) THEN Returned(TRUE, IntOf(confirm), TRUE)
              ELSE Raised("ValueError")
         ELSE IF confirm # <<>> /\ ~StartsWith(confirm, "y")
              THEN Returned(FALSE, 0, TRUE)
         ELSE Returned(TRUE, 0, TRUE)

\* ------------------------------------------------------------ PlaywrightTools
Selectors == {"css=a"}

\* The tool calls the policy can propose: the public methods of the toolbox.
Ops == {[name |-> "click", selector |-> s] : s \in Selectors}
       \cup {[name |-> "go_back", selector |-> ""]}

\* What the browser does to one invocation. click: the locator click times
\* out, the screenshot fails, reading the page fails, or all succeed.
\* go_back: the navigation fails, reading the page fails, or all succeed.
Outcomes(name) ==
    IF name = "click" THEN {"timeout", "shot_fail", "html_fail", "ok"}
    ELSE {"nav_fail", "html_fail", "ok"}

\* The effect of one invocation on the toolbox: the new history, the new
\* screenshot labels, and the exception the method raised ("none" when it
\* returned the page's HTML).
Effect(h, shots, raised) ==
    [history |-> h, screenshots |-> shots, raised |-> raised]

\* click with the timeout swallowed instead of raised again: the method
\* goes on to return the page's HTML.
click_Swallow(h, shots, selector, outcome) ==
    IF outcome = "timeout" THEN Effect(h, shots, "none")
    ELSE LET h1 == Append(h, <<"click", selector>>) IN
         IF outcome = "shot_fail" THEN Effect(h1, shots, "Error")
         ELSE Effect(h1, Append(shots, Len(h1)),
                     IF outcome = "ok" THEN "none" ELSE "Error")

\* click with the entry appended before the click is attempted.
click_AppendFirst(h, shots, selector, outcome) ==
    LET h1 == Append(h, <<"click", selector>>) IN
    IF outcome = "timeout" THEN Effect(h1, shots, "TimeoutError")
    ELSE IF outcome = "shot_fail" THEN Effect(h1, shots, "Error")
    ELSE Effect(h1, Append(shots, Len(h1)),
                IF outcome = "ok" THEN "none" ELSE "Error")

\* click with the entry appended after the screenshot instead of before it.
click_AppendLast(h, shots, selector, outcome) ==
    IF outcome = "timeout" THEN Effect(h, shots, "TimeoutError")
    ELSE IF outcome = "shot_fail" THEN Effect(h, shots, "Error")
    ELSE Effect(Append(h, <<"click", selector>>), Append(shots, Len(h)),
                IF outcome = "ok" THEN "none" ELSE "Error")

\* click naming the screenshot after the length of the history before its
\* own entry is appended.
click_LabelBefore(h, shots, selector, outcome) ==
    IF outcome = "timeout" THEN Effect(h, shots, "TimeoutError")
    ELSE LET h1 == Append(h, <<"click", selector>>) IN
         IF outcome = "shot_fail" THEN Effect(h1, shots, "Error")
         ELSE Effect(h1, Append(shots, Len(h)),
                     IF outcome = "ok" THEN "none" ELSE "Error")

\* Lines 46-71. The entry is appended once the click went through, the
\* screenshot is named after the length of the history at that moment, and
\* a timeout of the click is logged and raised again.
click(h, shots, selector, outcome) ==
    IF outcome = "timeout" THEN Effect(h, shots, "TimeoutError")
    ELSE LET h1 == Append(h, <<"click", selector>>) IN
         IF outcome = "shot_fail" THEN Effect(h1, shots, "Error")
         ELSE Effect(h1, Append(shots, Len(h1)),
                     IF outcome = "ok" THEN "none" ELSE "Error")

\* go_back taking the last entry off the history instead of adding one.
go_back_Pop(h, shots, outcome) ==
    IF outcome = "nav_fail" THEN Effect(h, shots, "Error")
    ELSE Effect(IF h = <<>> THEN h ELSE SubSeq(h, 1, Len(h) - 1), shots,
                IF outcome = "ok" THEN "none" ELSE "Error")

\* Lines 73-82.
go_back(h, shots, outcome) ==
    IF outcome = "nav_fail" THEN Effect(h, shots, "Error")
    ELSE Effect(Append(h, <<"back", "">>), shots,
                IF outcome = "ok" THEN "none" ELSE "Error")

\* Dispatch of a tool call by name to the toolbox method.
Invoke(h, shots, call, outcome) ==
    IF call.name = "click" THEN click(h, shots, call.selector, outcome)
    ELSE go_back(h, shots, outcome)

\* --------------------------------------------------------------- the policy
\* A response: its text (identified by the prompt it answers) and its tool
\* calls, each with a fresh id.
Batches(maxn) ==
    UNION {[1..n -> Ops] : n \in 0..maxn}

\* The batches the policy may propose after issuing `issued` calls.
Proposals(issued) ==
    Batches(IF MaxCalls - issued < MaxBatch THEN MaxCalls - issued ELSE MaxBatch)

Response(text, ops, firstId) ==
    [text |-> text,
     calls |-> [i \in 1..Len(ops) |->
                   [id |-> firstId + i, name |-> ops[i].name,
                    selector |-> ops[i].selector]]]

\* ------------------------------------------------------------------- state
Init ==
    /\ pc = "prompt"
    /\ response = None
    /\ rounds = 0
    /\ nextId = 0
    /\ ran = <<>>
    /\ tool_results = <<>>
    /\ skip_confirmation_for = 0
    /\ history = <<>>
    /\ screenshots = <<>>
    /\ hist0 = 0
    /\ executed = {}
    /\ twice = FALSE
    /\ batches = 0
    /\ gates = 0
    /\ reads = 0
    /\ gate_call = None
    /\ gate_ret = None
    /\ fed = <<>>
    /\ fault = "none"
    /\ output = None
    /\ exit_status = None
    /\ inflight = {}
    /\ budget = 0
    /\ since_read = 0

\* Lines 143-151: the initial query; the policy answers with a response.
InitialPrompt ==
    /\ pc = "prompt"
    /\ \E ops \in Proposals(nextId) :
          /\ response' = Response(0, ops, nextId)
          /\ nextId' = nextId + Len(ops)
    /\ pc' = "loop"
    /\ UNCHANGED <<rounds, ran, tool_results, skip_confirmation_for, history,
                   screenshots, hist0, executed, twice, batches, gates, reads,
                   gate_call, gate_ret, fed, fault, output,
                   exit_status, inflight, budget, since_read>>

\* The wrapper with the exit call of its handler left out: the diagnostic is
\* printed and the process ends with status 0.
template_ExitZero(exception) ==
    [code |-> 0, diagnostic |-> exception # "none"]

\* src/async_run.py, lines 24-39: the wrapper runs the script as main(). An
\* exception of main() is reported on stderr with its traceback and the
\* process exits with status 1; otherwise the process ends with status 0.
template(exception) ==
    IF exception = "none" THEN [code |-> 0, diagnostic |-> FALSE]
    ELSE [code |-> 1, diagnostic |-> TRUE]

\* Lines 143-151 and 171-177: the policy client raises; nothing in the
\* script catches it.
PolicyFail ==
    /\ pc \in {"prompt", "feed"}
    /\ pc' = "crashed"
    /\ fault' = "policy"
    /\ exit_status' = template("policy")
    /\ UNCHANGED <<response, rounds, nextId, ran, tool_results,
                   skip_confirmation_for, history, screenshots, hist0,
                   executed, twice, batches, gates, reads, gate_call, gate_ret, fed,
                   output,
                   inflight, budget, since_read>>

\* A loop head without the break of line 162.
AfterToolCalls_NeverBreak(calls) == "exec"

\* A loop head that asks for the confirmation before the batch is executed.
AfterToolCalls_GateFirst(calls) == IF calls = <<>> THEN "report" ELSE "gate"

\* Where the loop head goes (lines 159-164): out of the loop when the
\* response has no tool calls, to execute_tool_calls otherwise. The record
\* of what the last prompt submitted ends here.
AfterToolCalls(calls) == IF calls = <<>> THEN "report" ELSE "exec"

LoopHead ==
    /\ pc = "loop"
    /\ pc' = AfterToolCalls(response.calls)
    /\ IF response.calls = <<>>
       THEN UNCHANGED <<ran, hist0, batches>>
       ELSE /\ ran' = <<>>
            /\ hist0' = Len(history)
            /\ batches' = batches + 1
    /\ fed' = <<>>
    /\ UNCHANGED <<response, rounds, nextId, tool_results,
                   skip_confirmation_for, history, screenshots, executed,
                   twice, gates, reads, gate_call, gate_ret, fault, output,
                   exit_status, inflight, budget, since_read>>

\* Line 164, inside execute_tool_calls: one call of the batch runs.
\* execute_tool_calls is the llm library's: the tools are coroutines and the
\* order in which the library completes the calls of a batch is not fixed
\* by this program, so any pending call may be the next to complete. An
\* exception of the tool becomes the call's result (line 68: the failure is
\* told to the policy).
RanIdx == {ran[k].idx : k \in 1..Len(ran)}

\* Line 164, inside execute_tool_calls: the coroutine of the next call of
\* the batch is started and its browser operation is under way. The calls
\* are started in the order of the proposal; nothing in this program makes
\* the library wait for one call before it starts the next.
ExecStart ==
    /\ pc = "exec"
    /\ \E i \in (1..Len(response.calls)) \ (RanIdx \cup inflight) :
          /\ (1..(i - 1)) \subseteq (RanIdx \cup inflight)
          /\ inflight' = inflight \cup {i}
    /\ UNCHANGED <<pc, response, rounds, nextId, ran, tool_results,
                   skip_confirmation_for, history, screenshots, hist0,
                   executed, twice, batches, gates, reads, gate_call,
                   gate_ret, fed, fault, output, exit_status, budget,
                   since_read>>

\* Line 164, inside execute_tool_calls: a started call completes.
ExecCall ==
    /\ pc = "exec"
    /\ \E i \in inflight :
       \E outcome \in Outcomes(response.calls[i].name) :
          LET call == response.calls[i]
              e == Invoke(history, screenshots, call, outcome)
          IN /\ history' = e.history
             /\ screenshots' = e.screenshots
             /\ ran' = Append(ran, [idx |-> i, id |-> call.id,
                                     outcome |-> outcome,
                                     ok |-> (e.raised = "none")])
             /\ executed' = executed \cup {call.id}
             /\ twice' = (twice \/ call.id \in executed)
             /\ inflight' = inflight \ {i}
    /\ UNCHANGED <<pc, response, rounds, nextId, tool_results,
                   skip_confirmation_for, hist0, batches, gates, reads,
                   gate_call, gate_ret, fed, fault, output, exit_status,
                   budget, since_read>>

\* The results of the batch, one per call, in the order of the calls.
ResultOf(i) == LET k == CHOOSE k \in 1..Len(ran) : ran[k].idx = i
               IN [id |-> ran[k].id, ok |-> ran[k].ok]

Results(n) == [i \in 1..n |-> ResultOf(i)]

\* Line 164: execute_tool_calls returns once every call of the batch ran.
ExecReturn ==
    /\ pc = "exec"
    /\ RanIdx = 1..Len(response.calls)
    /\ tool_results' = Results(Len(response.calls))
    /\ pc' = "gate"
    /\ inflight = {}
    /\ UNCHANGED <<response, rounds, nextId, ran, skip_confirmation_for,
                   history, screenshots, hist0, executed, twice, batches, gates,
                   reads, gate_call, gate_ret, fed, fault, output,
                   exit_status, inflight, budget, since_read>>

\* What the operator can type at the prompt of the main loop.
OperatorInputs == {EOF} \cup {Line(s) : s \in Strs(1)}

\* Line 168 without the break: the verdict is ignored.
AfterGate_Always(do_continue) == "feed"

\* Line 168 with the test inverted.
AfterGate_Inverted(do_continue) == IF do_continue THEN "report" ELSE "feed"

\* Where line 168 goes after should_continue returned.
AfterGate(do_continue) == IF do_continue THEN "feed" ELSE "report"

\* Lines 167-169: the confirmation. An exception of should_continue leaves
\* the assignment of line 167 undone and ends the script.
Gate ==
    /\ pc = "gate"
    /\ \E inp \in OperatorInputs :
          LET r == should_continue(skip_confirmation_for, inp) IN
          /\ r.read \/ inp = EOF
          /\ gate_call' = [skip_count |-> skip_confirmation_for,
                           inp |-> IF r.read THEN inp ELSE None]
          /\ gate_ret' = r
          /\ reads' = reads + (IF r.read THEN 1 ELSE 0)
          /\ IF r.raised # "none"
             THEN /\ pc' = "crashed"
                  /\ fault' = r.raised
                  /\ exit_status' = template(r.raised)
                  /\ UNCHANGED skip_confirmation_for
             ELSE /\ pc' = AfterGate(r.cont)
                  /\ skip_confirmation_for' = r.skip
                  /\ UNCHANGED <<fault, exit_status>>
          /\ IF r.read
             THEN /\ budget' = (IF r.raised = "none" THEN r.skip ELSE 0)
                  /\ since_read' = 0
             ELSE UNCHANGED <<budget, since_read>>
    /\ gates' = gates + 1
    /\ UNCHANGED <<response, rounds, nextId, ran, tool_results, history,
                   screenshots, hist0, executed, twice, batches, fed, output,
                   inflight>>

\* Only the results of the calls that succeeded are handed over.
Submitted_OnlyOk(results) == SelectSeq(results, LAMBDA r : r.ok)

\* What line 173 hands to the policy.
Submitted(results) == results

\* Lines 171-177: the results go to the policy, which answers with the next
\* response. tool_results is dead from here to its next assignment at line
\* 164 and is cleared. The run is cut after MaxRounds follow-up prompts.
Feed ==
    /\ pc = "feed"
    /\ rounds < MaxRounds
    /\ \E ops \in Proposals(nextId) :
          /\ response' = Response(rounds + 1, ops, nextId)
          /\ nextId' = nextId + Len(ops)
    /\ fed' = Submitted(tool_results)
    /\ tool_results' = <<>>
    /\ rounds' = rounds + 1
    /\ gates' = 0
    /\ gate_call' = None
    /\ gate_ret' = None
    /\ pc' = "loop"
    /\ since_read' = since_read + 1
    /\ UNCHANGED <<ran, skip_confirmation_for, history, screenshots, hist0,
                   executed, twice, batches, reads, fault, output,
                   exit_status, inflight, budget>>

\* The report with the steps printed from the last to the first.
FinalReport_Reversed(text, h) ==
    <<<<"Final response", text>>, <<"Steps">>>>
    \o [i \in 1..Len(h) |-> <<"-", h[Len(h) + 1 - i][1], h[Len(h) + 1 - i][2]>>]

\* Lines 182-185: the lines the script prints at its end: the text of the
\* last response, the "Steps:" header, and one line per entry of
\* tools.history in list order.
FinalReport(text, h) ==
    <<<<"Final response", text>>, <<"Steps">>>>
    \o [i \in 1..Len(h) |-> <<"-", h[i][1], h[i][2]>>]

\* Lines 182-185: the final response's text, then the steps.
Report ==
    /\ pc = "report"
    /\ output' = FinalReport(response.text, history)
    /\ pc' = "done"
    /\ exit_status' = template("none")
    /\ UNCHANGED <<response, rounds, nextId, ran, tool_results,
                   skip_confirmation_for, history, screenshots, hist0,
                   executed, twice, batches, gates, reads, gate_call, gate_ret, fed,
                   fault,
                   inflight, budget, since_read>>

Next ==
    \/ InitialPrompt
    \/ PolicyFail
    \/ LoopHead
    \/ ExecStart
    \/ ExecCall
    \/ ExecReturn
    \/ Gate
    \/ Feed
    \/ Report

Spec == Init /\ [][Next]_vars

\* ------------------------------------------- should_continue on its own
\* The function applied to every skip count up to MaxSkip and every line of
\* up to MaxLen characters, outside the loop.
GateInputs == {EOF} \cup {Line(s) : s \in Strs(MaxLen)}

GateInit ==
    /\ pc = "prompt"
    /\ response = None
    /\ rounds = 0
    /\ nextId = 0
    /\ ran = <<>>
    /\ tool_results = <<>>
    /\ skip_confirmation_for = 0
    /\ history = <<>>
    /\ screenshots = <<>>
    /\ hist0 = 0
    /\ executed = {}
    /\ twice = FALSE
    /\ batches = 0
    /\ gates = 0
    /\ reads = 0
    /\ gate_call \in [skip_count : 0..MaxSkip, inp : GateInputs]
    /\ gate_ret = None
    /\ fed = <<>>
    /\ fault = "none"
    /\ output = None
    /\ exit_status = None
    /\ inflight = {}
    /\ budget = 0
    /\ since_read = 0

CallShouldContinue ==
    /\ gate_ret = None
    /\ gate_ret' = should_continue(gate_call.skip_count, gate_call.inp)
    /\ UNCHANGED <<pc, response, rounds, nextId, ran, tool_results,
                   skip_confirmation_for, history, screenshots, hist0,
                   executed, twice, batches, gates, reads, gate_call, fed, fault,
                   output,
                   exit_status, inflight, budget, since_read>>

GateNext == CallShouldContinue

GateSpec == GateInit /\ [][GateNext]_vars

\* ======================================================== the properties
\* The last should_continue call has returned or raised.
GateCalled == gate_ret # None

Accepted == GateCalled /\ gate_ret.raised = "none" /\ gate_ret.cont
Declined == GateCalled /\ gate_ret.raised = "none" /\ ~gate_ret.cont

\* C1: for every skip count k > 0 should_continue returns (True, k - 1) and
\* does not call input().
C1_AutoSkip ==
    (GateCalled /\ gate_call.skip_count > 0)
        => /\ gate_ret.raised = "none"
           /\ gate_ret.cont
           /\ gate_ret.skip = gate_call.skip_count - 1
           /\ ~gate_ret.read

\* should_continue(3) with a line waiting that would decline if it were read.
C1_Witness ==
    /\ GateCalled
    /\ gate_call.skip_count = 3
    /\ gate_call.inp = Line(<<"n">>)
    /\ gate_ret = Returned(TRUE, 2, FALSE)

\* The answer C2 gives for a line, after lower-casing and trimming. A
\* non-negative integer is a non-empty string of the decimal digits.
C2_Decimal(s) == s # <<>> /\ \A i \in 1..Len(s) : s[i] \in {"1", "2"}

C2_Expected(inp) ==
    IF inp.eof THEN <<FALSE, 0>>
    ELSE LET a == Strip(Lower(inp.line)) IN
         IF a # <<>> /\ a[1] = "n" THEN <<FALSE, 0>>
         ELSE IF C2_Decimal(a) THEN <<TRUE, IntOf(a)>>
         ELSE IF a = <<>> \/ a[1] = "y" THEN <<TRUE, 0>>
         ELSE <<FALSE, 0>>

\* C2: with skip count 0 should_continue reads one line and returns the
\* classification of C2_Expected; it has no other outcome.
C2_Classification ==
    (GateCalled /\ gate_call.skip_count = 0)
        => /\ gate_ret.read
           /\ gate_ret.raised = "none"
           /\ <<gate_ret.cont, gate_ret.skip>> = C2_Expected(gate_call.inp)

\* The entry a tool call stands for in the history.
Recorded(call) ==
    IF call.name = "click" THEN <<"click", call.selector>> ELSE <<"back", "">>

\* The browser action of an invocation (the click, the navigation) went
\* through.
ActionDone(outcome) == outcome \notin {"timeout", "nav_fail"}

\* The entries of the history from position n + 1 on.
Since(n) == SubSeq(history, n + 1, Len(history))

\* Every call of the current batch has run.
BatchRan == RanIdx = 1..Len(response.calls)

RECURSIVE Completed(_)
Completed(r) ==
    IF r = <<>> THEN <<>>
    ELSE (IF ActionDone(Head(r).outcome)
          THEN <<Recorded(response.calls[Head(r).idx])>> ELSE <<>>)
         \o Completed(Tail(r))

C4_GateBeforeBatch ==
    /\ (pc = "exec") => gates = 1
    /\ (Declined /\ rounds = 1 /\ pc \in {"report", "done"})
          => (batches = 1 /\ Len(history) = hist0)

\* C4 as amended: the batch of an iteration is executed in full before the
\* gate is consulted, and the verdict only decides whether the results go
\* back to the policy: when the gate declines on iteration k the run has
\* executed k batches, the last one included, and the history holds the
\* completed calls of that batch too.
C4_BatchBeforeGate ==
    /\ (pc = "exec") => gates = 0
    /\ (pc = "gate")
          => /\ gates = 0
             /\ BatchRan
             /\ Len(tool_results) = Len(response.calls)
             /\ batches = rounds + 1
    /\ (Declined /\ pc \in {"report", "done"})
          => /\ batches = rounds + 1
             /\ BatchRan
             /\ \A i \in 1..Len(response.calls) :
                   response.calls[i].id \in executed
             /\ Since(hist0) = Completed(ran)

\* The gate declined on iteration 2 after both batches were executed.
C4_Witness ==
    /\ pc = "done"
    /\ Declined
    /\ rounds = 1
    /\ batches = 2
    /\ Len(history) > hist0
    /\ hist0 > 0

\* The results of the batch are at hand: one per call, under the call's id.
ResultsAvailable ==
    /\ BatchRan
    /\ [i \in 1..Len(tool_results) |-> tool_results[i].id]
          = [i \in 1..Len(response.calls) |-> response.calls[i].id]

\* C5: in every iteration with pending calls should_continue runs exactly
\* once, with the results of the batch at hand and before they are
\* submitted; a follow-up prompt is submitted only after that one call
\* accepted, and none once the gate declined.
C5_GateBetween ==
    [][/\ gates' <= 1
       /\ (gates' = gates + 1) => (pc = "gate" /\ ResultsAvailable)
       /\ (rounds' # rounds) => (pc = "feed" /\ gates = 1 /\ Accepted)
       /\ (pc = "gate" /\ Declined') => (pc' = "report" /\ rounds' = rounds)
       /\ Declined => (rounds' = rounds /\ pc' \in {"report", "done"})
      ]_vars

\* The gate accepted once and the two results wait to be submitted.
C5_Witness ==
    /\ pc = "feed"
    /\ gates = 1
    /\ Accepted
    /\ Len(tool_results) = 2

\* The result the batch produced for the call with this id.
RanOk(id) == LET k == CHOOSE k \in 1..Len(ran) : ran[k].id = id IN ran[k].ok

\* C6: when a follow-up prompt is submitted, the results it carries are one
\* per call of the response, under the calls' ids, each the result of that
\* call's one execution; no call id is ever executed twice.
C6_ResolvedOnce ==
    [][/\ ~twice'
       /\ (rounds' # rounds)
             => /\ Len(fed') = Len(response.calls)
                /\ \A i \in 1..Len(response.calls) :
                      /\ fed'[i].id = response.calls[i].id
                      /\ response.calls[i].id \in executed
                      /\ fed'[i].ok = RanOk(response.calls[i].id)
      ]_vars

\* Two results were fed back in call order, one a failure, although the
\* second call completed first.
C6_Witness ==
    /\ pc = "loop"
    /\ rounds = 1
    /\ Len(fed) = 2
    /\ fed[1].id = 1 /\ fed[2].id = 2
    /\ fed[1].ok /\ ~fed[2].ok
    /\ ran[1].idx = 2

\* C7: the loop is left for the final report exactly when the response has
\* no tool calls or the gate declined; with tool calls the batch is
\* executed, and when the gate accepted the next step is the follow-up
\* prompt.
C7_Termination ==
    [][/\ (pc' = "report" /\ pc # "report")
             => \/ (pc = "loop" /\ response.calls = <<>>)
                \/ (pc = "gate" /\ Declined')
       /\ (pc = "loop" /\ response.calls = <<>>) => pc' = "report"
       /\ (pc = "loop" /\ response.calls # <<>>) => pc' = "exec"
       /\ (pc = "gate" /\ Declined') => pc' = "report"
       /\ (pc = "gate" /\ Accepted') => pc' = "feed"
       /\ (pc = "feed" /\ fault' = "none")
             => (pc' = "loop" /\ rounds' = rounds + 1)
      ]_vars

\* The loop was left on a decline with tool calls still proposed.
C7_Witness ==
    /\ pc = "report"
    /\ Declined
    /\ response.calls # <<>>
    /\ rounds = 2

\* C8: when the first response proposes no tool call the script goes
\* straight to the report: no tool runs, should_continue is not called, the
\* history is empty and the report prints that response's text.
C8_ZeroCalls ==
    (response # None /\ rounds = 0 /\ response.calls = <<>>)
        => /\ pc \in {"loop", "report", "done"}
           /\ history = <<>>
           /\ executed = {}
           /\ batches = 0
           /\ gates = 0
           /\ reads = 0
           /\ ~GateCalled
           /\ (pc = "done") => output = <<<<"Final response", 0>>, <<"Steps">>>>

\* The run is over after a first response without tool calls.
C8_Witness ==
    /\ pc = "done"
    /\ rounds = 0
    /\ response.calls = <<>>
    /\ output # None

\* A click of the last batch timed out.
TimedOut == \E k \in 1..Len(ran) : ran[k].outcome = "timeout"

\* C9 as stated: a click that timed out is a failed result and the loop
\* goes on to the next policy round-trip with it: the run does not end
\* with the failure not fed back.
C9_TimeoutFedBack ==
    /\ \A k \in 1..Len(ran) : ran[k].outcome = "timeout" => ~ran[k].ok
    /\ (TimedOut /\ pc \in {"report", "done"}) => ~Declined

\* C9 as amended: a click that timed out is a failed result; executing the
\* batch goes on and ends at the confirmation gate, no exception reaching
\* the loop; the failure is among the results at the gate, and it is fed
\* back in the next round-trip when the gate accepts.
C9_TimeoutIsResult ==
    [][/\ \A k \in 1..Len(ran') : ran'[k].outcome = "timeout" => ~ran'[k].ok
       /\ (pc = "exec") => (pc' \in {"exec", "gate"} /\ fault' = "none")
       /\ (pc = "gate" /\ TimedOut)
             => \A k \in 1..Len(ran) :
                   ran[k].outcome = "timeout"
                      => tool_results[ran[k].idx] = [id |-> ran[k].id, ok |-> FALSE]
       /\ (pc = "gate" /\ TimedOut /\ Accepted') => pc' = "feed"
       /\ (rounds' # rounds /\ TimedOut)
             => \A k \in 1..Len(ran) :
                   ran[k].outcome = "timeout"
                      => fed'[ran[k].idx] = [id |-> ran[k].id, ok |-> FALSE]
      ]_vars

\* The only call of the first batch was a click that timed out; its failure
\* went back to the policy and the history is empty.
C9_Witness ==
    /\ pc = "loop"
    /\ rounds = 1
    /\ Len(ran) = 1
    /\ ran[1].outcome = "timeout"
    /\ fed = <<[id |-> 1, ok |-> FALSE]>>
    /\ history = <<>>

\* The number the operator typed, for a line made of decimal digits.
Typed(inp) == IntOf(Strip(inp.line))

\* C10: the skip count starts at 0 and is never negative; it changes only
\* in the step of the confirmation, where it goes down by one when the
\* confirmation is skipped (no line is read) and is otherwise set to the
\* number on the line the operator typed.
C10_SkipCount ==
    /\ skip_confirmation_for = 0
    /\ [][/\ skip_confirmation_for' >= 0
          /\ (skip_confirmation_for' # skip_confirmation_for) => pc = "gate"
          /\ (pc = "gate" /\ skip_confirmation_for > 0)
                => /\ skip_confirmation_for' = skip_confirmation_for - 1
                   /\ reads' = reads
          /\ (pc = "gate" /\ skip_confirmation_for = 0
              /\ skip_confirmation_for' # 0)
                => /\ reads' = reads + 1
                   /\ ~gate_call'.inp.eof
                   /\ C2_Decimal(Strip(gate_call'.inp.line))
                   /\ skip_confirmation_for' = Typed(gate_call'.inp)
         ]_vars

\* The operator typed 2 and one confirmation has been skipped since.
C10_Witness ==
    /\ skip_confirmation_for = 1
    /\ gate_call = [skip_count |-> 2, inp |-> None]
    /\ pc = "feed"

\* The run has ended on a failure of the policy client.
PolicyFailed == fault = "policy"

\* C11: a failure of the policy client during the first prompt or during a
\* feed ends the run: the run is over with a diagnostic and exit status 1,
\* no report is printed, and from then on no prompt is submitted, no tool
\* call runs, the confirmation is not consulted and the history is not
\* touched. The failure itself happens only in a prompt or a feed and
\* submits nothing.
C11_PolicyFatal ==
    /\ [](PolicyFailed
            => /\ pc = "crashed"
               /\ exit_status # None
               /\ exit_status.diagnostic
               /\ exit_status.code # 0
               /\ output = None
               /\ inflight = {})
    /\ [][/\ PolicyFailed
             => /\ rounds' = rounds
                /\ response' = response
                /\ executed' = executed
                /\ ran' = ran
                /\ gates' = gates
                /\ reads' = reads
                /\ history' = history
          /\ (~PolicyFailed /\ PolicyFailed')
             => /\ pc \in {"prompt", "feed"}
                /\ rounds' = rounds
                /\ response' = response
                /\ executed' = executed
                /\ reads' = reads
         ]_vars

\* The policy client failed in the feed that followed a batch of two calls
\* and an accepted confirmation.
C11_Witness ==
    /\ PolicyFailed
    /\ pc = "crashed"
    /\ rounds = 0
    /\ Len(ran) = 2
    /\ Accepted
    /\ exit_status = [code |-> 1, diagnostic |-> TRUE]

\* C12: when the run ends normally (a response without tool calls) or on a
\* declined confirmation, it prints the text of the last response, then the
\* header, then one line per entry of the history, all entries, in the
\* order they were recorded; before that nothing is printed, and the step
\* that leaves the loop for the report is always followed by the report.
C12_FinalReport ==
    /\ [](pc = "done"
            => /\ Len(output) = Len(history) + 2
               /\ output[1] = <<"Final response", response.text>>
               /\ output[2] = <<"Steps">>
               /\ \A i \in 1..Len(history) :
                     output[i + 2] = <<"-", history[i][1], history[i][2]>>
               /\ exit_status = [code |-> 0, diagnostic |-> FALSE])
    /\ [](pc # "done" => output = None)
    /\ [][/\ (pc = "report") => pc' = "done"
          /\ (pc = "loop" /\ response.calls = <<>>) => pc' = "report"
          /\ (pc = "gate" /\ Declined') => pc' = "report"
         ]_vars

\* The operator declined after a batch of a click and a go_back, and the
\* report lists the click first.
C12_Witness ==
    /\ pc = "done"
    /\ Declined
    /\ history = <<<<"click", "css=a">>, <<"back", "">>>>
    /\ output = <<<<"Final response", 0>>, <<"Steps">>,
                  <<"-", "click", "css=a">>, <<"-", "back", "">>>>

\* C13: within a batch the calls run one at a time in the order of the
\* proposal (a call is started only when every earlier call of the batch has
\* completed, and the calls complete in that order), and the results are
\* handed to the policy in the order of the proposal, each under the id of
\* its call.
C13_OneAtATimeInOrder ==
    /\ (pc = "exec")
          => /\ \A k \in 1..Len(ran) : ran[k].idx = k
             /\ \A i \in inflight : (1..(i - 1)) \subseteq RanIdx
    /\ (pc \in {"gate", "feed"} /\ fault = "none" /\ tool_results # <<>>)
          => /\ Len(tool_results) = Len(response.calls)
             /\ \A i \in 1..Len(tool_results) :
                   tool_results[i].id = response.calls[i].id

\* The operations of the browser, the round-trips to the policy and the
\* reads of the operator's line that are under way.
InFlight ==
    Cardinality(inflight)
    + (IF pc \in {"prompt", "feed"} THEN 1 ELSE 0)
    + (IF pc = "gate" THEN 1 ELSE 0)

\* C14: at most one of a policy round-trip, a browser operation and a read
\* of the operator's line is under way at any time.
C14_Serialized == InFlight <= 1

\* C15: the history only grows at its end: every step leaves it as it is
\* or adds one entry after the ones it holds, which stay as they are and
\* where they are; and a step that adds an entry is the execution of a tool
\* call (not a confirmation, a prompt, a feed or the final report).
C15_AppendOnly ==
    [][/\ Len(history') >= Len(history)
       /\ SubSeq(history', 1, Len(history)) = history
       /\ (history' # history)
             => /\ pc = "exec"
                /\ Len(history') = Len(history) + 1
                /\ Len(ran') = Len(ran) + 1
      ]_vars

\* The second batch added a go_back after the click of the first batch, and
\* the run ended with both entries in place.
C15_Witness ==
    /\ pc = "done"
    /\ rounds = 1
    /\ hist0 = 1
    /\ history = <<<<"click", "css=a">>, <<"back", "">>>>

\* A tool call of the batch completes in this step.
CallCompletes == Len(ran') = Len(ran) + 1

\* C16: every click and every go_back, succeeding or failing, triggers one
\* snapshot capture (a snapshot is written, or the capture was attempted and
\* failed), and a failed capture leaves the result of the call a success.
C16_AlwaysCaptured ==
    [][CallCompletes
         => LET e == ran'[Len(ran')] IN
            /\ \/ Len(screenshots') = Len(screenshots) + 1
               \/ e.outcome = "shot_fail"
            /\ (e.outcome = "shot_fail") => e.ok
      ]_vars

\* C17: the confirmation that follows the first executed batch reads a line
\* from the operator; and since the last read, whose answer left the skip
\* count at N (budget), at most N + 1 follow-up prompts have gone to the
\* policy, because the confirmation reached after N + 1 of them reads a
\* line again. A line is read only in the step of a confirmation, and N is
\* the number the operator typed, 0 for an empty or "y" answer.
C17_BoundedOversight ==
    /\ [](since_read + skip_confirmation_for <= budget + 1)
    /\ [](since_read <= budget + 1)
    /\ [][/\ (pc = "gate" /\ batches = 1) => reads' = reads + 1
          /\ (pc = "gate" /\ since_read = budget + 1) => reads' = reads + 1
          /\ (reads' # reads) => (pc = "gate" /\ since_read' = 0)
          /\ (reads' # reads /\ Accepted')
                => budget' = (IF C2_Decimal(Strip(gate_call'.inp.line))
                              THEN Typed(gate_call'.inp) ELSE 0)
         ]_vars

\* The operator typed 1 at the first confirmation; two follow-up prompts
\* later the skip count is used up and the confirmation is about to read
\* again.
C17_Witness ==
    /\ pc = "gate"
    /\ reads = 1
    /\ budget = 1
    /\ since_read = 2
    /\ skip_confirmation_for = 0
    /\ batches = 3

\* C18: a tool invocation adds its entry to the history exactly when its
\* browser action (the click, the navigation) went through; the entry is
\* in place before the screenshot is attempted, so a click whose screenshot
\* fails is recorded, without a screenshot and with a failed result, and an
\* invocation whose action fails leaves the history as it was.
C18_RecordedIffActed ==
    [][CallCompletes
         => LET e == ran'[Len(ran')]
                call == response.calls[e.idx]
            IN /\ ActionDone(e.outcome)
                     => history' = Append(history, Recorded(call))
               /\ ~ActionDone(e.outcome)
                     => /\ history' = history
                        /\ ~e.ok
               /\ (e.outcome = "shot_fail")
                     => /\ history' = Append(history, Recorded(call))
                        /\ screenshots' = screenshots
                        /\ ~e.ok
      ]_vars

\* The click of the first batch went through and its screenshot failed: the
\* click is in the history, no screenshot was written and the result is a
\* failure.
C18_Witness ==
    /\ pc = "gate"
    /\ rounds = 0
    /\ Len(ran) = 1
    /\ ran[1].outcome = "shot_fail"
    /\ ~ran[1].ok
    /\ history = <<<<"click", "css=a">>>>
    /\ screenshots = <<>>
    /\ tool_results = <<[id |-> 1, ok |-> FALSE]>>

\* C19: the screenshot of a click is labelled with the position of that
\* click's own entry in the history, counted from 1, which is the length of
\* the history right after the entry is appended; so the labels written
\* during a run are strictly increasing, no label is written twice, every
\* label is the position of a click entry, and a go_back writes none.
C19_Labels ==
    /\ [](/\ \A i \in 1..Len(screenshots) :
                /\ screenshots[i] \in 1..Len(history)
                /\ history[screenshots[i]][1] = "click"
          /\ \A i, j \in 1..Len(screenshots) :
                i < j => screenshots[i] < screenshots[j])
    /\ [][(screenshots' # screenshots)
            => /\ CallCompletes
               /\ LET e == ran'[Len(ran')]
                      call == response.calls[e.idx]
                  IN /\ call.name = "click"
                     /\ history' = Append(history, Recorded(call))
                     /\ screenshots' = Append(screenshots, Len(history'))
         ]_vars

\* A click, a go_back and a second click went through: the screenshots are
\* labelled 1 and 3.
C19_Witness ==
    /\ Len(history) = 3
    /\ history[1][1] = "click"
    /\ history[2][1] = "back"
    /\ history[3][1] = "click"
    /\ screenshots = <<1, 3>>

====
